---- MODULE Spec2Model ----
(***************************************************************************)
(* A model of the portapps helper layer (src/sys.go) and of the Ant        *)
(* release script (src/.build/build-app.xml).                              *)
(*                                                                         *)
(* Strings are modelled as sequences of one-character strings, so that     *)
(* strings.Split / strings.Join / strings.HasPrefix are computed character *)
(* by character, as the Go library computes them.                          *)
(*                                                                         *)
(* The module holds five independent state machines, one per area of the   *)
(* code, each with its own specification:                                  *)
(*   SpecShortcut  CreateShortcut                       (sys.go 36-78)     *)
(*   SpecPath      PathJoin                             (sys.go 219-226)   *)
(*   SpecReplace   ReplaceByPrefix                      (sys.go 287-307)   *)
(*   SpecFs        the file and folder utilities        (sys.go 113-322)   *)
(*   SpecBuild     build-app.xml                                           *)
(* The variables of the machines a specification does not run stay at      *)
(* their idle values.                                                      *)
(***************************************************************************)
EXTENDS Integers, Sequences, FiniteSets, TLC

VARIABLES
  \* ---- CreateShortcut
  scPc,        \* position in CreateShortcut
  scShortcut,  \* the WindowsShortcut argument
  scLocked,    \* the goroutine is pinned to its OS thread
  scCom,       \* the COM library is initialised on this thread
  scDefers,    \* the stack of deferred calls
  scTrace,     \* the calls made so far, in order
  scErr,       \* the returned error ("nil" when none)
  \* ---- PathJoin
  pjPc, pjElem, pjResult,
  \* ---- ReplaceByPrefix
  rpPc,        \* "idle" / "done"
  rpFile,      \* the content of the file named filename
  rpOld,       \* its content when ReplaceByPrefix was called
  rpPrefix, rpReplace, rpErr,
  \* ---- file and folder utilities
  fs,          \* the file system: path -> node
  fsPc,        \* "idle" / "done"
  fsCall,      \* the call made: utility, arguments, OS steps, result
  \* ---- build-app.xml
  bProps,      \* the Ant properties of the invocation
  bPc,         \* position in the script
  bTrace,      \* the tasks executed so far, in order
  bDisk,       \* build.path / setup.path / the files under tmp.path
  bDisk0       \* bDisk when the invocation started

scVars == <<scPc, scShortcut, scLocked, scCom, scDefers, scTrace, scErr>>
pjVars == <<pjPc, pjElem, pjResult>>
rpVars == <<rpPc, rpFile, rpOld, rpPrefix, rpReplace, rpErr>>
fsVars == <<fs, fsPc, fsCall>>
bVars  == <<bProps, bPc, bTrace, bDisk, bDisk0>>
vars   == <<scVars, pjVars, rpVars, fsVars, bVars>>

\* Each machine leaves the variables of the others alone.
ScOnly == UNCHANGED <<pjVars, rpVars, fsVars, bVars>>
PjOnly == UNCHANGED <<scVars, rpVars, fsVars, bVars>>
RpOnly == UNCHANGED <<scVars, pjVars, fsVars, bVars>>
FsOnly == UNCHANGED <<scVars, pjVars, rpVars, bVars>>
BOnly  == UNCHANGED <<scVars, pjVars, rpVars, fsVars>>

Nil == "nil"

(***************************************************************************)
(* Go string library, on sequences of characters.                          *)
(***************************************************************************)
NL == "\n"
BS == "\\"

\* strings.HasPrefix(s, prefix)
HasPrefix(s, prefix) ==
  /\ Len(s) >= Len(prefix)
  /\ SubSeq(s, 1, Len(prefix)) = prefix

\* strings.Join(elems, sep): "" for no element, else the first element
\* followed by sep and the next element, for every further element.
RECURSIVE JoinFrom(_, _, _, _)
JoinFrom(elems, sep, i, acc) ==
  IF i > Len(elems) THEN acc
  ELSE JoinFrom(elems, sep, i + 1, acc \o sep \o elems[i])

StringsJoin(elems, sep) ==
  IF Len(elems) = 0 THEN <<>>
  ELSE JoinFrom(elems, sep, 2, elems[1])

\* strings.Split(s, sep) for a one-character separator: every maximal run
\* between separators, empty runs included; one empty string for s = "".
RECURSIVE SplitFrom(_, _, _, _, _)
SplitFrom(s, sep, i, cur, acc) ==
  IF i > Len(s) THEN Append(acc, cur)
  ELSE IF s[i] = sep THEN SplitFrom(s, sep, i + 1, <<>>, Append(acc, cur))
  ELSE SplitFrom(s, sep, i + 1, Append(cur, s[i]), acc)

StringsSplit(s, sep) == SplitFrom(s, sep, 1, <<>>, <<>>)

\* All sequences over S of length at most n.
SeqsUpTo(S, n) == UNION {[1..k -> S] : k \in 0..n}

(***************************************************************************)
(* PathJoin (sys.go 219-226)                                               *)
(***************************************************************************)
MaxSegs == 4

\* The path segments callers pass; "" is the empty segment.
PjSegments == {<<>>, <<"a">>, <<"b">>}

\* The bug of dropping every empty segment instead of the leading ones.
PathJoinDropAllEmpty(elem) ==
  StringsJoin(SelectSeq(elem, LAMBDA e : e # <<>>), <<BS>>)

\* for i, e := range elem { if e != "" { return strings.Join(elem[i:], `\`) } }
\* return ""
RECURSIVE PathJoinLoop(_, _)
PathJoinLoop(elem, i) ==
  IF i > Len(elem) THEN <<>>
  ELSE IF elem[i] # <<>> THEN StringsJoin(SubSeq(elem, i, Len(elem)), <<BS>>)
  ELSE PathJoinLoop(elem, i + 1)

PathJoin(elem) == PathJoinLoop(elem, 1)

PjIdle ==
  /\ pjPc = "off"
  /\ pjElem = <<>>
  /\ pjResult = <<>>

PjInit ==
  /\ pjPc = "call"
  /\ pjElem \in SeqsUpTo(PjSegments, MaxSegs)
  /\ pjResult = <<>>

PJ_Call ==
  /\ PjOnly
  /\ pjPc = "call"
  /\ pjResult' = PathJoin(pjElem)
  /\ pjPc' = "done"
  /\ UNCHANGED pjElem

(***************************************************************************)
(* ReplaceByPrefix (sys.go 287-307)                                        *)
(***************************************************************************)
MaxContentLen == 4
MaxPrefixLen == 2
MaxReplaceLen == 2

RpChars == {"a", "b", NL}

\* The example of the specification: lines A=1, B=2, C=3; prefix B=;
\* replacement B=99.
RpExampleContent ==
  <<"A", "=", "1", NL, "B", "=", "2", NL, "C", "=", "3">>
RpExamplePrefix == <<"B", "=">>
RpExampleReplace == <<"B", "=", "9", "9">>

RpContents == SeqsUpTo(RpChars, MaxContentLen) \cup {RpExampleContent}
RpPrefixes == SeqsUpTo(RpChars, MaxPrefixLen) \cup {RpExamplePrefix}
RpReplaces == SeqsUpTo(RpChars, MaxReplaceLen) \cup {RpExampleReplace}

\* The bug of replacing only the lines equal to the prefix.
ReplaceLinesExact(lines, prefix, replace) ==
  [i \in 1..Len(lines) |-> IF lines[i] = prefix THEN replace ELSE lines[i]]

\* for i, line := range lines { if strings.HasPrefix(line, prefix) { lines[i] = replace } }
ReplaceLines(lines, prefix, replace) ==
  [i \in 1..Len(lines) |->
     IF HasPrefix(lines[i], prefix) THEN replace ELSE lines[i]]

\* lines := strings.Split(string(input), "\n"); ...; strings.Join(lines, "\n")
ReplaceOutput(input, prefix, replace) ==
  StringsJoin(ReplaceLines(StringsSplit(input, NL), prefix, replace), <<NL>>)

\* What ioutil.WriteFile can leave behind when it fails: the old content (the
\* open failed), or a prefix of the new content (the file was truncated and
\* the write or the close failed).
WriteFileFailed(old, new) ==
  {old} \cup {SubSeq(new, 1, k) : k \in 0..Len(new)}

RpIdle ==
  /\ rpPc = "off"
  /\ rpFile = <<>>
  /\ rpOld = <<>>
  /\ rpPrefix = <<>>
  /\ rpReplace = <<>>
  /\ rpErr = Nil

RpInit ==
  /\ rpPc = "idle"
  /\ rpFile \in RpContents
  /\ rpOld = <<>>
  /\ rpPrefix = <<>>
  /\ rpReplace = <<>>
  /\ rpErr = Nil

\* ReplaceByPrefix(filename, prefix, replace); the file is read, rewritten in
\* memory and written back; a failed read or write is returned.
RP_ReplaceByPrefix ==
  /\ RpOnly
  /\ rpPc = "idle"
  /\ \E prefix \in RpPrefixes, replace \in RpReplaces :
       /\ rpPrefix' = prefix
       /\ rpReplace' = replace
       /\ rpOld' = rpFile
       /\ \/ /\ rpErr' = "ReadFile"
             /\ rpFile' = rpFile
          \/ /\ rpErr' = "WriteFile"
             /\ rpFile' \in WriteFileFailed(rpFile, ReplaceOutput(rpFile, prefix, replace))
          \/ /\ rpErr' = Nil
             /\ rpFile' = ReplaceOutput(rpFile, prefix, replace)
  /\ rpPc' = "done"

(***************************************************************************)
(* CreateShortcut (sys.go 36-78)                                           *)
(***************************************************************************)
\* type WindowsShortcutProperty struct { Value string; Clear bool }
WindowsShortcutProperty == [Value : {"", "v1", "v2"}, Clear : BOOLEAN]

\* type WindowsShortcut struct
WindowsShortcut ==
  [ShortcutPath : {"app.lnk"},
   TargetPath : {"", "app.exe"},
   Arguments : WindowsShortcutProperty,
   Description : WindowsShortcutProperty,
   IconLocation : WindowsShortcutProperty,
   WorkingDirectory : WindowsShortcutProperty]

OptionalProperties ==
  <<"Arguments", "Description", "IconLocation", "WorkingDirectory">>

\* The bug of testing the value alone, so that Clear never unsets a property.
OptionalWriteValueOnly(name, prop) ==
  IF prop.Value # ""
  THEN << <<"PutProperty", name, prop.Value>> >>
  ELSE <<>>

\* if shortcut.X.Value != "" || shortcut.X.Clear {
\*     oleutil.PutProperty(idispatch, "X", shortcut.X.Value) }
OptionalWrite(name, prop) ==
  IF prop.Value # "" \/ prop.Clear
  THEN << <<"PutProperty", name, prop.Value>> >>
  ELSE <<>>

\* Lines 62-74: TargetPath, then the four optional properties in order.
PropertyWrites(shortcut) ==
  << <<"PutProperty", "TargetPath", shortcut.TargetPath>> >>
  \o OptionalWrite("Arguments", shortcut.Arguments)
  \o OptionalWrite("Description", shortcut.Description)
  \o OptionalWrite("IconLocation", shortcut.IconLocation)
  \o OptionalWrite("WorkingDirectory", shortcut.WorkingDirectory)

\* The bug of releasing in the order of acquisition.
NextDeferredFirst(defers) == 1

\* Go runs the deferred calls of a function last in, first out.
NextDeferred(defers) == Len(defers)

RemoveAt(seq, i) == SubSeq(seq, 1, i - 1) \o SubSeq(seq, i + 1, Len(seq))

ScIdle ==
  /\ scPc = "off"
  /\ scShortcut = <<>>
  /\ scLocked = FALSE
  /\ scCom = FALSE
  /\ scDefers = <<>>
  /\ scTrace = <<>>
  /\ scErr = Nil

ScInit ==
  /\ scPc = "LockOSThread"
  /\ scShortcut \in WindowsShortcut
  /\ scLocked = FALSE
  /\ scCom = FALSE
  /\ scDefers = <<>>
  /\ scTrace = <<>>
  /\ scErr = Nil

\* runtime.LockOSThread(); defer runtime.UnlockOSThread()
CS_LockOSThread ==
  /\ ScOnly
  /\ scPc = "LockOSThread"
  /\ scLocked' = TRUE
  /\ scDefers' = Append(scDefers, "UnlockOSThread")
  /\ scTrace' = Append(scTrace, <<"LockOSThread">>)
  /\ scPc' = "CoInitializeEx"
  /\ UNCHANGED <<scShortcut, scCom, scErr>>

\* ole.CoInitializeEx(...); defer ole.CoUninitialize().  The result of
\* CoInitializeEx is not looked at: the teardown is deferred either way.
CS_CoInitializeEx ==
  /\ ScOnly
  /\ scPc = "CoInitializeEx"
  /\ \E ok \in BOOLEAN : scCom' = ok
  /\ scDefers' = Append(scDefers, "CoUninitialize")
  /\ scTrace' = Append(scTrace, <<"CoInitializeEx">>)
  /\ scPc' = "CreateObject"
  /\ UNCHANGED <<scShortcut, scLocked, scErr>>

\* oleShellObject, err := oleutil.CreateObject("WScript.Shell")
\* if err != nil { return err }; defer oleShellObject.Release()
CS_CreateObject ==
  /\ ScOnly
  /\ scPc = "CreateObject"
  /\ scTrace' = Append(scTrace, <<"CreateObject">>)
  /\ \/ /\ scErr' = "CreateObject"
        /\ scPc' = "return"
        /\ UNCHANGED scDefers
     \/ /\ scDefers' = Append(scDefers, "oleShellObject.Release")
        /\ scPc' = "QueryInterface"
        /\ UNCHANGED scErr
  /\ UNCHANGED <<scShortcut, scLocked, scCom>>

\* wshell, err := oleShellObject.QueryInterface(ole.IID_IDispatch)
\* if err != nil { return err }; defer wshell.Release()
CS_QueryInterface ==
  /\ ScOnly
  /\ scPc = "QueryInterface"
  /\ scTrace' = Append(scTrace, <<"QueryInterface">>)
  /\ \/ /\ scErr' = "QueryInterface"
        /\ scPc' = "return"
        /\ UNCHANGED scDefers
     \/ /\ scDefers' = Append(scDefers, "wshell.Release")
        /\ scPc' = "CallCreateShortcut"
        /\ UNCHANGED scErr
  /\ UNCHANGED <<scShortcut, scLocked, scCom>>

\* cs, err := oleutil.CallMethod(wshell, "CreateShortcut", shortcut.ShortcutPath)
\* if err != nil { return err }
CS_CallCreateShortcut ==
  /\ ScOnly
  /\ scPc = "CallCreateShortcut"
  /\ scTrace' = Append(scTrace, <<"CreateShortcut", scShortcut.ShortcutPath>>)
  /\ \/ /\ scErr' = "CreateShortcut"
        /\ scPc' = "return"
     \/ /\ scPc' = "PutProperty"
        /\ UNCHANGED scErr
  /\ UNCHANGED <<scShortcut, scLocked, scCom, scDefers>>

\* idispatch := cs.ToIDispatch(); the PutProperty calls of lines 62-74
CS_PutProperties ==
  /\ ScOnly
  /\ scPc = "PutProperty"
  /\ scTrace' = scTrace \o PropertyWrites(scShortcut)
  /\ scPc' = "Save"
  /\ UNCHANGED <<scShortcut, scLocked, scCom, scDefers, scErr>>

\* _, err = oleutil.CallMethod(idispatch, "Save"); return err
CS_Save ==
  /\ ScOnly
  /\ scPc = "Save"
  /\ scTrace' = Append(scTrace, <<"Save">>)
  /\ \E err \in {Nil, "Save"} : scErr' = err
  /\ scPc' = "return"
  /\ UNCHANGED <<scShortcut, scLocked, scCom, scDefers>>

\* The function returns: one deferred call runs.
CS_RunDeferred ==
  /\ ScOnly
  /\ scPc = "return"
  /\ scDefers # <<>>
  /\ LET i == NextDeferred(scDefers)
         call == scDefers[i]
     IN /\ scDefers' = RemoveAt(scDefers, i)
        /\ scTrace' = Append(scTrace, <<call>>)
        /\ scLocked' = IF call = "UnlockOSThread" THEN FALSE ELSE scLocked
        /\ scCom' = IF call = "CoUninitialize" THEN FALSE ELSE scCom
  /\ UNCHANGED <<scShortcut, scPc, scErr>>

\* Every deferred call has run: control is back in the caller.
CS_Returned ==
  /\ ScOnly
  /\ scPc = "return"
  /\ scDefers = <<>>
  /\ scPc' = "done"
  /\ UNCHANGED <<scShortcut, scLocked, scCom, scDefers, scTrace, scErr>>

ScNext ==
  \/ CS_LockOSThread
  \/ CS_CoInitializeEx
  \/ CS_CreateObject
  \/ CS_QueryInterface
  \/ CS_CallCreateShortcut
  \/ CS_PutProperties
  \/ CS_Save
  \/ CS_RunDeferred
  \/ CS_Returned

(***************************************************************************)
(* The file system under the file and folder utilities.                    *)
(*                                                                         *)
(* A path is a sequence of names; fs maps every existing path to its node, *)
(* a directory or a file with its bytes.  The empty path is the volume     *)
(* root, always a directory.  Every OS call of a utility is a step; the    *)
(* environment may make one step of a call fail (ctx.failAt), on top of    *)
(* the failures the file system itself causes (a missing source, a file    *)
(* where a directory is needed).                                           *)
(***************************************************************************)
MaxEntries == 3
MaxFaultAt == 12

FsRoots == {"s", "d"}
FsNames == {"a", "b"}
FileContents == {<<>>, <<1, 2>>}

DirNode == [kind |-> "dir", data |-> <<>>]
FileNode(data) == [kind |-> "file", data |-> data]

Min(a, b) == IF a < b THEN a ELSE b
Parent(p) == SubSeq(p, 1, Len(p) - 1)
Prefixes(p) == {SubSeq(p, 1, k) : k \in 1..Len(p)}
Under(p, q) == Len(q) > Len(p) /\ SubSeq(q, 1, Len(p)) = p
Present(f, p) == p = <<>> \/ p \in DOMAIN f
IsDir(f, p) == p = <<>> \/ (p \in DOMAIN f /\ f[p].kind = "dir")
IsFile(f, p) == p \in DOMAIN f /\ f[p].kind = "file"
Put(f, p, node) == (p :> node) @@ f

\* The orders in which a directory can list its entries.
FsOrders == {<<"a", "b">>, <<"b", "a">>}

\* The entries of directory p (name and os.FileInfo.IsDir), in listing order.
Listing(f, p, order) ==
  LET names == SelectSeq(order, LAMBDA nm : Append(p, nm) \in DOMAIN f)
  IN [i \in 1..Len(names) |->
        [name |-> names[i], isDir |-> IsDir(f, Append(p, names[i]))]]

\* os.MkdirAll(p): fails when p or one of its parents is a file; else every
\* missing directory of the path is created.
MkdirAllCan(f, p) == \A q \in Prefixes(p) : q \notin DOMAIN f \/ f[q].kind = "dir"
MkdirAllDo(f, p) ==
  [q \in DOMAIN f \cup Prefixes(p) |-> IF q \in DOMAIN f THEN f[q] ELSE DirNode]

\* os.Create(p): fails when the parent is no directory or p is a directory;
\* else p is an empty file.
CreateCan(f, p) == p # <<>> /\ IsDir(f, Parent(p)) /\ ~IsDir(f, p)

\* os.RemoveAll(p): p and everything under it are gone.
RemoveAllDo(f, p) == [q \in {x \in DOMAIN f : x # p /\ ~Under(p, x)} |-> f[q]]

\* One OS call in the log of a utility call.
Step(op, p, ok) == [op |-> op, path |-> p, ok |-> ok]

\* Whether the next OS call succeeds: the file system allows it and the
\* environment does not make this step fail.
StepOk(natural, steps, ctx) == natural /\ Len(steps) + 1 # ctx.failAt

\* The result of a utility: the file system, the returned error, the OS calls.
Res(f, err, steps) == [fs |-> f, err |-> err, steps |-> steps]

\* The bytes that reach the destination: all of them, or the first ones when
\* the write fails.
Written(data, ok, ctx) ==
  IF ok THEN data ELSE SubSeq(data, 1, Min(ctx.got, Len(data)))

(***************************************************************************)
(* CopyFile (sys.go 113-137)                                               *)
(***************************************************************************)
CopyFile(f, steps, src, dest, ctx) ==
  LET openOk == StepOk(Present(f, src), steps, ctx)
      s1 == Append(steps, Step("Open", src, openOk))
      createOk == StepOk(CreateCan(f, dest), s1, ctx)
      s2 == Append(s1, Step("Create", dest, createOk))
      f1 == Put(f, dest, FileNode(<<>>))
      \* io.Copy reads src after dest was truncated; reading a directory fails
      copyOk == StepOk(IsFile(f1, src), s2, ctx)
      s3 == Append(s2, Step("Copy", dest, copyOk))
      data == IF IsFile(f1, src) THEN f1[src].data ELSE <<>>
      f2 == Put(f1, dest, FileNode(Written(data, copyOk, ctx)))
      syncOk == StepOk(TRUE, s3, ctx)
      s4 == Append(s3, Step("Sync", dest, syncOk))
  IN IF ~openOk THEN Res(f, "Open", s1)
     ELSE IF ~createOk THEN Res(f, "Create", s2)
     ELSE IF ~copyOk THEN Res(f2, "Copy", s3)
     ELSE IF ~syncOk THEN Res(f2, "Sync", s4)
     ELSE Res(f2, Nil, s4)

(***************************************************************************)
(* CopyFolder (sys.go 140-165)                                             *)
(***************************************************************************)
RECURSIVE CopyFolder(_, _, _, _, _)
RECURSIVE CopyObjects(_, _, _, _, _, _, _)

\* for _, object := range objects { ... }: the first failing child ends the
\* walk and its error is returned; after the last child, nil.
CopyObjects(f, steps, source, dest, objects, i, ctx) ==
  IF i > Len(objects) THEN Res(f, Nil, steps)
  ELSE LET sourceFile == Append(source, objects[i].name)
           destFile == Append(dest, objects[i].name)
           r == IF objects[i].isDir
                THEN CopyFolder(f, steps, sourceFile, destFile, ctx)
                ELSE CopyFile(f, steps, sourceFile, destFile, ctx)
       IN IF r.err # Nil THEN r
          ELSE CopyObjects(r.fs, r.steps, source, dest, objects, i + 1, ctx)

\* err = os.MkdirAll(dest, 777); if err != nil { return err }
\* folder, _ := os.Open(source)          -- the error is dropped
\* objects, err := folder.Readdir(-1)    -- the error is never looked at;
\*   on a nil folder Readdir returns no entry and ErrInvalid; when it fails
\*   part-way it returns the entries read so far
CopyFolder(f, steps, source, dest, ctx) ==
  LET mkOk == StepOk(MkdirAllCan(f, dest), steps, ctx)
      s1 == Append(steps, Step("MkdirAll", dest, mkOk))
      f1 == MkdirAllDo(f, dest)
      openOk == StepOk(Present(f1, source), s1, ctx)
      s2 == Append(s1, Step("Open", source, openOk))
      readOk == openOk /\ StepOk(IsDir(f1, source), s2, ctx)
      s3 == Append(s2, Step("Readdir", source, readOk))
      all == Listing(f1, source, ctx.order)
      objects == IF readOk THEN all
                 ELSE IF openOk /\ IsDir(f1, source)
                      THEN SubSeq(all, 1, Min(ctx.got, Len(all)))
                 ELSE <<>>
  IN IF ~mkOk THEN Res(f, "MkdirAll", s1)
     ELSE CopyObjects(f1, s3, source, dest, objects, 1, ctx)

(***************************************************************************)
(* RemoveContents (sys.go 168-185)                                         *)
(***************************************************************************)
RECURSIVE RemoveNames(_, _, _, _, _, _)
RemoveNames(f, steps, dir, names, i, ctx) ==
  IF i > Len(names) THEN Res(f, Nil, steps)
  ELSE LET p == Append(dir, names[i].name)
           ok == StepOk(TRUE, steps, ctx)
           s1 == Append(steps, Step("RemoveAll", p, ok))
       IN IF ~ok THEN Res(f, "RemoveAll", s1)
          ELSE RemoveNames(RemoveAllDo(f, p), s1, dir, names, i + 1, ctx)

RemoveContents(f, steps, dir, ctx) ==
  LET openOk == StepOk(Present(f, dir), steps, ctx)
      s1 == Append(steps, Step("Open", dir, openOk))
      readOk == StepOk(IsDir(f, dir), s1, ctx)
      s2 == Append(s1, Step("Readdirnames", dir, readOk))
  IN IF ~openOk THEN Res(f, "Open", s1)
     ELSE IF ~readOk THEN Res(f, "Readdirnames", s2)
     ELSE RemoveNames(f, s2, dir, Listing(f, dir, ctx.order), 1, ctx)

(***************************************************************************)
(* CreateFolderCheck (sys.go 188-193)                                      *)
(***************************************************************************)
CreateFolderCheck(f, steps, path, ctx) ==
  LET ok == StepOk(MkdirAllCan(f, path), steps, ctx)
      s1 == Append(steps, Step("MkdirAll", path, ok))
  IN IF ~ok THEN Res(f, "MkdirAll", s1)
     ELSE Res(MkdirAllDo(f, path), Nil, s1)

(***************************************************************************)
(* CreateFile (sys.go 205-216)                                             *)
(***************************************************************************)
\* _, err = file.WriteString(content)
\* if err = file.Sync(); err != nil { return err }
\* The error of WriteString is overwritten by the result of Sync.
CreateFile(f, steps, path, content, ctx) ==
  LET createOk == StepOk(CreateCan(f, path), steps, ctx)
      s1 == Append(steps, Step("Create", path, createOk))
      writeOk == StepOk(TRUE, s1, ctx)
      s2 == Append(s1, Step("WriteString", path, writeOk))
      f1 == Put(f, path, FileNode(Written(content, writeOk, ctx)))
      syncOk == StepOk(TRUE, s2, ctx)
      s3 == Append(s2, Step("Sync", path, syncOk))
  IN IF ~createOk THEN Res(f, "Create", s1)
     ELSE IF ~syncOk THEN Res(f1, "Sync", s3)
     ELSE Res(f1, Nil, s3)

(***************************************************************************)
(* WriteToFile (sys.go 254-264)                                            *)
(***************************************************************************)
WriteToFile(f, steps, name, content, ctx) ==
  LET createOk == StepOk(CreateCan(f, name), steps, ctx)
      s1 == Append(steps, Step("Create", name, createOk))
      copyOk == StepOk(TRUE, s1, ctx)
      s2 == Append(s1, Step("Copy", name, copyOk))
      f1 == Put(f, name, FileNode(Written(content, copyOk, ctx)))
  IN IF ~createOk THEN Res(f, "Create", s1)
     ELSE IF ~copyOk THEN Res(f1, "Copy", s2)
     ELSE Res(f1, Nil, s2)

(***************************************************************************)
(* IsDirEmpty (sys.go 310-322) and Exists (sys.go 244-251)                 *)
(***************************************************************************)
\* Readdir(1) returns io.EOF on a directory without entries: (true, nil);
\* any other outcome is (false, err).
IsDirEmpty(f, steps, name, ctx) ==
  LET openOk == StepOk(Present(f, name), steps, ctx)
      s1 == Append(steps, Step("Open", name, openOk))
      readOk == StepOk(IsDir(f, name), s1, ctx)
      s2 == Append(s1, Step("Readdir", name, readOk))
      empty == Listing(f, name, ctx.order) = <<>>
  IN IF ~openOk THEN Res(f, "Open", s1) @@ [ret |-> FALSE]
     ELSE IF ~readOk THEN Res(f, "Readdir", s2) @@ [ret |-> FALSE]
     ELSE Res(f, Nil, s2) @@ [ret |-> empty]

\* os.Stat(name): false when the error says the path does not exist, true
\* when there is no error and when the error is any other one.
Exists(f, steps, name, ctx) ==
  LET injected == Len(steps) + 1 = ctx.failAt
      statOk == Present(f, name) /\ ~injected
      s1 == Append(steps, Step("Stat", name, statOk))
      notExist == ~injected /\ ~Present(f, name)
  IN Res(f, Nil, s1) @@ [ret |-> ~notExist]

(***************************************************************************)
(* The state machine of the file and folder utilities: a file system with  *)
(* a source tree under s and whatever is already under d, then one call.   *)
(***************************************************************************)
FsNodes == {DirNode} \cup {FileNode(d) : d \in FileContents}

\* The paths that can be created next: a root, or a child of a directory.
Addable(f) ==
  ({<<r>> : r \in FsRoots}
     \cup {Append(q, nm) : q \in {x \in DOMAIN f : f[x].kind = "dir"}, nm \in FsNames})
  \ DOMAIN f

Extensions(f) == {Put(f, p, n) : p \in Addable(f), n \in FsNodes}

RECURSIVE FsGrow(_, _)
FsGrow(S, n) ==
  IF n = 0 THEN S ELSE FsGrow(S \cup UNION {Extensions(f) : f \in S}, n - 1)

\* Every file system with the directory s and at most MaxEntries entries more.
FileSystems == FsGrow({(<<"s">> :> DirNode)}, MaxEntries)

FsCtx == [failAt : 0..MaxFaultAt, order : FsOrders, got : 0..Cardinality(FsNames)]

\* The paths the utilities are called on.
FsArgPaths == {<<r>> : r \in FsRoots} \cup {<<r, nm>> : r \in FsRoots, nm \in FsNames}

FsIdle ==
  /\ fs = <<>>
  /\ fsPc = "off"
  /\ fsCall = [op |-> "none"]

FsInit ==
  /\ fs \in FileSystems
  /\ fsPc = "idle"
  /\ fsCall = [op |-> "none"]

\* The call returns: the file system it leaves, and what it did.
Returned(op, args, r) ==
  /\ fs' = r.fs
  /\ fsCall' = [op |-> op, args |-> args, pre |-> fs, res |-> r]
  /\ fsPc' = "done"

FS_CopyFile ==
  /\ FsOnly
  /\ fsPc = "idle"
  /\ \E src \in {<<"s", nm>> : nm \in FsNames}, dest \in FsArgPaths, ctx \in FsCtx :
       Returned("CopyFile", <<src, dest>>, CopyFile(fs, <<>>, src, dest, ctx))

FS_CopyFolder ==
  /\ FsOnly
  /\ fsPc = "idle"
  /\ \E source \in {<<"s">>, <<"s", "a">>}, dest \in {<<"d">>, <<"d", "a">>},
        ctx \in FsCtx :
       Returned("CopyFolder", <<source, dest>>, CopyFolder(fs, <<>>, source, dest, ctx))

FS_RemoveContents ==
  /\ FsOnly
  /\ fsPc = "idle"
  /\ \E dir \in FsArgPaths, ctx \in FsCtx :
       Returned("RemoveContents", <<dir>>, RemoveContents(fs, <<>>, dir, ctx))

FS_CreateFolderCheck ==
  /\ FsOnly
  /\ fsPc = "idle"
  /\ \E path \in FsArgPaths, ctx \in FsCtx :
       Returned("CreateFolderCheck", <<path>>, CreateFolderCheck(fs, <<>>, path, ctx))

FS_CreateFile ==
  /\ FsOnly
  /\ fsPc = "idle"
  /\ \E path \in FsArgPaths, content \in FileContents, ctx \in FsCtx :
       Returned("CreateFile", <<path, content>>, CreateFile(fs, <<>>, path, content, ctx))

FS_WriteToFile ==
  /\ FsOnly
  /\ fsPc = "idle"
  /\ \E name \in FsArgPaths, content \in FileContents, ctx \in FsCtx :
       Returned("WriteToFile", <<name, content>>, WriteToFile(fs, <<>>, name, content, ctx))

FS_IsDirEmpty ==
  /\ FsOnly
  /\ fsPc = "idle"
  /\ \E name \in FsArgPaths, ctx \in FsCtx :
       Returned("IsDirEmpty", <<name>>, IsDirEmpty(fs, <<>>, name, ctx))

FS_Exists ==
  /\ FsOnly
  /\ fsPc = "idle"
  /\ \E name \in FsArgPaths, ctx \in FsCtx :
       Returned("Exists", <<name>>, Exists(fs, <<>>, name, ctx))

FsNext ==
  \/ FS_CopyFile
  \/ FS_CopyFolder
  \/ FS_RemoveContents
  \/ FS_CreateFolderCheck
  \/ FS_CreateFile
  \/ FS_WriteToFile
  \/ FS_IsDirEmpty
  \/ FS_Exists

(***************************************************************************)
(* build-app.xml                                                           *)
(*                                                                         *)
(* An Ant property is either undefined or a string; ${name} expands to the *)
(* value of a defined property and stays the text ${name} for an undefined *)
(* one.  The trace lists the tasks with an effect outside the script, and  *)
(* the failures, in the order of execution.                                *)
(***************************************************************************)
Undef == "<undefined>"

Variants == <<"win3264", "win32", "win64">>
VariantSet == {Variants[i] : i \in 1..Len(Variants)}
Companions == <<"filename", "ext", "assertextract">>
CompanionSet == {Companions[i] : i \in 1..Len(Companions)}

PropName(v, suffix) == "atf." \o v \o "." \o suffix

\* ${name}
Expand(name, value) == IF value = Undef THEN "${" \o name \o "}" ELSE value

\* The value of a companion property of variant v.
CompanionValue(props, v, c) ==
  IF c \in props.companions[v] THEN "value-of-" \o PropName(v, c) ELSE Undef

BuildProps ==
  [apptype : {Undef, "standard"},
   debug : {Undef, "false", "true"},
   url : [VariantSet -> {Undef, "", "http://host/app.7z"}],
   companions : [VariantSet -> SUBSET CompanionSet]]

\* The file ${tmp.path}\${app.buildid}
Marker == "<app.buildid>"

\* What is under tmp.path besides version.dat when the script starts.
TmpOther == {"download.7z", "extract/version.dat", ".gitignore"}

\* The files a fileset leaves out by default (Ant's default excludes).
DefaultExcluded(name) == name \in {".gitignore"}

\* <fileset dir="${tmp.path}"><exclude name="version.dat"/></fileset>
FilesetSelects(name) == name # "version.dat" /\ ~DefaultExcluded(name)

\* The bug of cleaning unless debug is true.
CleanUnlessTrue(props) == Expand("debug", props.debug) # "true"

\* <equals arg1="${debug}" arg2="false"/>
CleanCondition(props) == Expand("debug", props.debug) = "false"

\* <not><equals arg1="${atf.V.url}" arg2=""/></not>
UrlGiven(props, v) == Expand(PropName(v, "url"), props.url[v]) # ""

\* The first of the three <fail unless=...> of variant v that fires, if any.
FirstMissing(props, v) ==
  LET missing == {i \in 1..Len(Companions) : Companions[i] \notin props.companions[v]}
  IN IF missing = {} THEN Undef
     ELSE Companions[CHOOSE i \in missing : \A j \in missing : i <= j]

GoArch(v) ==
  CASE v = "win32" -> "386"
    [] v = "win64" -> "amd64"
    [] OTHER -> "(not passed)"

\* The bug of a block copied from the win32 one with its parameters left.
ArchParamsOfWin32(props, v) ==
  [arch |-> v,
   filename |-> Expand(PropName("win32", "filename"), CompanionValue(props, "win32", "filename")),
   ext |-> Expand(PropName("win32", "ext"), CompanionValue(props, "win32", "ext")),
   url |-> Expand(PropName("win32", "url"), props.url["win32"]),
   assertextract |-> Expand(PropName("win32", "assertextract"),
                            CompanionValue(props, "win32", "assertextract")),
   goarch |-> GoArch(v)]

\* The <param>s of <antcall target="release.arch"> in the block of variant v.
ArchParams(props, v) ==
  [arch |-> v,
   filename |-> Expand(PropName(v, "filename"), CompanionValue(props, v, "filename")),
   ext |-> Expand(PropName(v, "ext"), CompanionValue(props, v, "ext")),
   url |-> Expand(PropName(v, "url"), props.url[v]),
   assertextract |-> Expand(PropName(v, "assertextract"),
                            CompanionValue(props, v, "assertextract")),
   goarch |-> GoArch(v)]

\* The position after the block of variant v.
AfterArch(v) ==
  CASE v = "win3264" -> "win32"
    [] v = "win32" -> "win64"
    [] OTHER -> "delete-marker"

\* Lines 76-79: the marker is deleted, then finalize is called.
AfterDeleteMarker == "finalize"

BIdle ==
  /\ bProps = <<>>
  /\ bPc = "off"
  /\ bTrace = <<>>
  /\ bDisk = <<>>
  /\ bDisk0 = <<>>

BInit ==
  /\ bProps \in BuildProps
  /\ bPc = "load"
  /\ bTrace = <<>>
  /\ \E hasVersion \in BOOLEAN :
       bDisk = [build |-> TRUE, setup |-> TRUE,
                tmp |-> TmpOther \cup (IF hasVersion THEN {"version.dat"} ELSE {})]
  /\ bDisk0 = bDisk

\* Lines 8-21: the checks made when the file is loaded.
B_Load ==
  /\ BOnly
  /\ bPc = "load"
  /\ IF bProps.apptype = Undef
     THEN /\ bTrace' = Append(bTrace, <<"fail", "app.type">>)
          /\ bPc' = "failed"
     ELSE IF \A v \in VariantSet : ~UrlGiven(bProps, v)
     THEN /\ bTrace' = Append(bTrace, <<"fail", "atf.url">>)
          /\ bPc' = "failed"
     ELSE /\ bTrace' = bTrace
          /\ bPc' = "release.app"
  /\ UNCHANGED <<bProps, bDisk, bDisk0>>

\* Lines 23-25: release.app starts (after init) and draws the build id.
B_ReleaseApp ==
  /\ BOnly
  /\ bPc = "release.app"
  /\ bPc' = Variants[1]
  /\ UNCHANGED <<bProps, bTrace, bDisk, bDisk0>>

\* Lines 26-41, 42-58, 59-75: the block of one variant.  release.arch is a
\* target of the imported build file; it succeeds or fails the build.
B_Arch(v) ==
  /\ BOnly
  /\ bPc = v
  /\ IF ~UrlGiven(bProps, v)
     THEN /\ bPc' = AfterArch(v)
          /\ UNCHANGED <<bTrace, bDisk>>
     ELSE IF FirstMissing(bProps, v) # Undef
     THEN /\ bTrace' = Append(bTrace, <<"fail", PropName(v, FirstMissing(bProps, v))>>)
          /\ bPc' = "failed"
          /\ UNCHANGED bDisk
     ELSE \/ /\ bTrace' = bTrace \o << <<"release.arch", ArchParams(bProps, v)>>,
                                       <<"echo", Marker>> >>
             /\ bDisk' = [bDisk EXCEPT !.tmp = @ \cup {Marker}]
             /\ bPc' = AfterArch(v)
          \/ /\ bTrace' = bTrace \o << <<"release.arch", ArchParams(bProps, v)>>,
                                       <<"fail", "release.arch">> >>
             /\ bPc' = "failed"
             /\ UNCHANGED bDisk
  /\ UNCHANGED <<bProps, bDisk0>>

\* The bug of leaving the marker file where it is.
MarkerKept(tmp) == tmp

\* <delete file="${tmp.path}\${app.buildid}"/>
MarkerDeleted(tmp) == tmp \ {Marker}

\* Line 76: the marker file is deleted.
B_DeleteMarker ==
  /\ BOnly
  /\ bPc = "delete-marker"
  /\ bTrace' = Append(bTrace, <<"delete-file", Marker>>)
  /\ bDisk' = [bDisk EXCEPT !.tmp = MarkerDeleted(@)]
  /\ bPc' = AfterDeleteMarker
  /\ UNCHANGED <<bProps, bDisk0>>

\* Line 79: <antcall target="finalize"/>
B_Finalize ==
  /\ BOnly
  /\ bPc = "finalize"
  /\ bTrace' = Append(bTrace, <<"finalize">>)
  /\ bPc' = "clean"
  /\ UNCHANGED <<bProps, bDisk, bDisk0>>

\* Lines 82-93: the cleaning.
B_Clean ==
  /\ BOnly
  /\ bPc = "clean"
  /\ IF CleanCondition(bProps)
     THEN /\ bTrace' = bTrace \o << <<"delete-dir", "build.path">>,
                                    <<"delete-dir", "setup.path">>,
                                    <<"delete-fileset", "tmp.path">> >>
          /\ bDisk' = [build |-> FALSE, setup |-> FALSE,
                       tmp |-> {n \in bDisk.tmp : ~FilesetSelects(n)}]
     ELSE UNCHANGED <<bTrace, bDisk>>
  /\ bPc' = "done"
  /\ UNCHANGED <<bProps, bDisk0>>

BNext ==
  \/ B_Load
  \/ B_ReleaseApp
  \/ \E v \in VariantSet : B_Arch(v)
  \/ B_DeleteMarker
  \/ B_Finalize
  \/ B_Clean

(***************************************************************************)
(* The specifications.                                                     *)
(***************************************************************************)
InitShortcut == ScInit /\ PjIdle /\ RpIdle /\ FsIdle /\ BIdle
SpecShortcut == InitShortcut /\ [][ScNext]_vars

InitPath == ScIdle /\ PjInit /\ RpIdle /\ FsIdle /\ BIdle
PjNext == PJ_Call
SpecPath == InitPath /\ [][PjNext]_vars

InitReplace == ScIdle /\ PjIdle /\ RpInit /\ FsIdle /\ BIdle
RpNext == RP_ReplaceByPrefix
SpecReplace == InitReplace /\ [][RpNext]_vars

InitFs == ScIdle /\ PjIdle /\ RpIdle /\ FsInit /\ BIdle
SpecFs == InitFs /\ [][FsNext]_vars

InitBuild == ScIdle /\ PjIdle /\ RpIdle /\ FsIdle /\ BInit
SpecBuild == InitBuild /\ [][BNext]_vars


(***************************************************************************)
(* Properties of CreateShortcut.                                           *)
(***************************************************************************)
\* The places of a call in the trace of CreateShortcut.
ScAt(call) == {i \in 1..Len(scTrace) : scTrace[i][1] = call}

\* The PutProperty calls made for property name.
ScPuts(name) ==
  {i \in 1..Len(scTrace) : scTrace[i][1] = "PutProperty" /\ scTrace[i][2] = name}

\* The shortcut object was obtained: the CreateShortcut method call succeeded.
ScObtained ==
  \/ scPc = "Save"
  \/ scPc \in {"return", "done"} /\ scErr \in {Nil, "Save"}

\* C3: on every exit path of CreateShortcut (shell object creation fails,
\* interface query fails, the CreateShortcut method fails, Save fails, Save
\* succeeds), when the function has returned the OS-thread pin is released
\* and COM is uninitialised, each exactly once, and CoUninitialize ran
\* before UnlockOSThread, that is while the thread was still pinned.
C3_ReleasedOnEveryExit ==
  scPc = "done" =>
    /\ ~scLocked
    /\ ~scCom
    /\ scErr \in {"CreateObject", "QueryInterface", "CreateShortcut", "Save", Nil}
    /\ Cardinality(ScAt("UnlockOSThread")) = 1
    /\ Cardinality(ScAt("CoUninitialize")) = 1
    /\ \A l \in ScAt("LockOSThread"), c \in ScAt("CoInitializeEx"),
          u \in ScAt("CoUninitialize"), r \in ScAt("UnlockOSThread") :
         l < c /\ c < u /\ u < r

\* CreateShortcut has returned the error of a failed interface query.
C3_Witness ==
  /\ scPc = "done"
  /\ scErr = "QueryInterface"
  /\ ScAt("CoUninitialize") # {}

\* C4: once the shortcut object is obtained, TargetPath is written, with the
\* descriptor's target; each optional property is written, with the
\* descriptor's Value, exactly when Value is non-empty or Clear is set, and
\* not at all otherwise; every write precedes Save.  Without the shortcut
\* object nothing is written.
C4_PropertyWrites ==
  /\ ScObtained =>
       /\ \E i \in ScPuts("TargetPath") :
            /\ ScPuts("TargetPath") = {i}
            /\ scTrace[i][3] = scShortcut.TargetPath
       /\ \A k \in 1..Len(OptionalProperties) :
            LET name == OptionalProperties[k]
                prop == scShortcut[name]
            IN IF prop.Value # "" \/ prop.Clear
               THEN \E i \in ScPuts(name) :
                      /\ ScPuts(name) = {i}
                      /\ scTrace[i][3] = prop.Value
               ELSE ScPuts(name) = {}
       /\ \A i \in ScAt("PutProperty"), j \in ScAt("Save") : i < j
  /\ ~ScObtained /\ scPc # "PutProperty" => ScAt("PutProperty") = {}
  /\ scPc = "PutProperty" => ScAt("PutProperty") = {}

\* A shortcut saved with one property cleared, one left alone and one set.
C4_Witness ==
  /\ scPc = "done"
  /\ scErr = Nil
  /\ scShortcut.Arguments = [Value |-> "", Clear |-> TRUE]
  /\ scShortcut.Description = [Value |-> "", Clear |-> FALSE]
  /\ scShortcut.IconLocation = [Value |-> "v1", Clear |-> FALSE]
  /\ ScAt("Save") # {}

(***************************************************************************)
(* Properties of PathJoin.                                                 *)
(***************************************************************************)
\* The segments glued with backslashes, from the last one backwards.
RECURSIVE Glued(_)
Glued(segs) ==
  IF Len(segs) = 1 THEN segs[1]
  ELSE Head(segs) \o <<BS>> \o Glued(Tail(segs))

\* C5: PathJoin returns the segments from the first non-empty one through
\* the last one joined with a backslash, empty segments after the first
\* non-empty one kept; and the empty string when no segment is non-empty.
C5_PathJoin ==
  pjPc = "done" =>
    LET nonEmpty == {i \in 1..Len(pjElem) : pjElem[i] # <<>>}
    IN IF nonEmpty = {} THEN pjResult = <<>>
       ELSE LET first == CHOOSE i \in nonEmpty : \A j \in nonEmpty : i <= j
            IN pjResult = Glued(SubSeq(pjElem, first, Len(pjElem)))

\* PathJoin("", "a", "", "b") has returned a, two backslashes, b.
C5_Witness ==
  /\ pjPc = "done"
  /\ pjElem = << <<>>, <<"a">>, <<>>, <<"b">> >>
  /\ pjResult = <<"a", BS, BS, "b">>

(***************************************************************************)
(* Properties of ReplaceByPrefix.                                          *)
(***************************************************************************)
Newlines(s) == {i \in 1..Len(s) : s[i] = NL}

\* The place of the k-th newline of s; 0 before the first, past the end
\* after the last.
Cut(s, k) ==
  IF k = 0 THEN 0
  ELSE IF k > Cardinality(Newlines(s)) THEN Len(s) + 1
  ELSE CHOOSE i \in Newlines(s) : Cardinality({j \in Newlines(s) : j < i}) = k - 1

\* The newline-separated lines of a file content.
LinesOf(s) ==
  [k \in 1..(Cardinality(Newlines(s)) + 1) |->
     SubSeq(s, Cut(s, k - 1) + 1, Cut(s, k) - 1)]

\* The file has as many lines as before, each line that started with the
\* prefix is the replacement and each other line is as it was.
RpLinesReplaced ==
  LET old == LinesOf(rpOld)
      new == LinesOf(rpFile)
  IN /\ Len(new) = Len(old)
     /\ \A i \in 1..Len(old) :
          IF HasPrefix(old[i], rpPrefix) THEN new[i] = rpReplace
          ELSE new[i] = old[i]

\* C6, as claimed: for every content, prefix and replacement, a successful
\* ReplaceByPrefix leaves the same number of lines, the lines that started
\* with the prefix replaced and the others unchanged.
C6_AnyReplacement ==
  rpPc = "done" /\ rpErr = Nil => RpLinesReplaced

\* C6, amended: the same, for every replacement that holds no newline.
C6_ReplaceByPrefix ==
  rpPc = "done" /\ rpErr = Nil /\ Newlines(rpReplace) = {} => RpLinesReplaced

\* The example: A=1, B=2, C=3 with prefix B= and replacement B=99.
C6_Witness ==
  /\ rpPc = "done"
  /\ rpErr = Nil
  /\ rpOld = RpExampleContent
  /\ rpPrefix = RpExamplePrefix
  /\ rpReplace = RpExampleReplace
  /\ rpFile = <<"A", "=", "1", NL, "B", "=", "9", "9", NL, "C", "=", "3">>


(***************************************************************************)
(* Properties of the file and folder utilities.                            *)
(***************************************************************************)
\* The paths under root, relative to it.
RelPaths(f, root) ==
  {SubSeq(q, Len(root) + 1, Len(q)) : q \in {x \in DOMAIN f : Under(root, x)}}

\* The tree at q in g has the directories and files of the tree at p in f,
\* under the same names, every file with the same bytes.
SameTree(f, p, g, q) ==
  /\ IsDir(f, p)
  /\ IsDir(g, q)
  /\ RelPaths(f, p) = RelPaths(g, q)
  /\ \A r \in RelPaths(f, p) : f[p \o r] = g[q \o r]

\* C1: a CopyFolder of a source directory tree that returns nil leaves at
\* dest a tree with the same directories and files, every file with the
\* bytes of its source file.
C1_CopyFolderMirrors ==
  (/\ fsPc = "done"
   /\ fsCall.op = "CopyFolder"
   /\ IsDir(fsCall.pre, fsCall.args[1])
   /\ fsCall.res.err = Nil)
  => SameTree(fsCall.pre, fsCall.args[1], fs, fsCall.args[2])

\* The copy does mirror the source when no OS call fails and nothing is at
\* dest beforehand.
CopyFolderCleanRun ==
  (/\ fsPc = "done"
   /\ fsCall.op = "CopyFolder"
   /\ IsDir(fsCall.pre, fsCall.args[1])
   /\ <<"d">> \notin DOMAIN fsCall.pre
   /\ \A i \in 1..Len(fsCall.res.steps) : fsCall.res.steps[i].ok)
  => /\ fsCall.res.err = Nil
     /\ SameTree(fsCall.pre, fsCall.args[1], fs, fsCall.args[2])

\* The utilities that return an error.
ErrorReturning ==
  {"CopyFile", "CopyFolder", "RemoveContents", "CreateFolderCheck",
   "CreateFile", "WriteToFile", "IsDirEmpty"}

\* C2: a utility that returns an error returns a non-nil one as soon as one
\* of its OS calls fails, and makes no OS call after the failed one.
C2_FirstFailureReturned ==
  (fsPc = "done" /\ fsCall.op \in ErrorReturning)
  => \A i \in 1..Len(fsCall.res.steps) :
       ~fsCall.res.steps[i].ok
         => fsCall.res.err # Nil /\ i = Len(fsCall.res.steps)


(***************************************************************************)
(* Properties of build-app.xml.                                            *)
(***************************************************************************)
\* The places of a kind of task in the trace of the build.
BAt(kind) == {i \in 1..Len(bTrace) : bTrace[i][1] = kind}

\* The release.arch invocations for variant v.
BReleases(v) == {i \in BAt("release.arch") : bTrace[i][2].arch = v}

\* The tasks with an effect outside the script.
BSideEffects ==
  BAt("release.arch") \cup BAt("echo") \cup BAt("delete-file")
    \cup BAt("delete-dir") \cup BAt("delete-fileset")

BCleanups == BAt("delete-dir") \cup BAt("delete-fileset")

\* The invocation is over.
BEnded == bPc \in {"done", "failed"}

\* The build failed on a check of a required property.
BFailedOnProperty ==
  /\ bPc = "failed"
  /\ bTrace[Len(bTrace)][1] = "fail"
  /\ bTrace[Len(bTrace)][2] # "release.arch"

\* The checks made at load time passed: release.app was invoked.
BLoaded ==
  /\ bProps.apptype # Undef
  /\ \E v \in VariantSet : bProps.url[v] # ""

\* The three companion properties of variant v are defined.
BComplete(v) == bProps.companions[v] = CompanionSet

\* Every URL property is defined, as an empty or a non-empty string.
BUrlsDefined == \A v \in VariantSet : bProps.url[v] # Undef

\* C7: when the build fails on a missing required property, no release.arch
\* invocation, no write of the marker file and no deletion came before
\* (stated for the invocations that define the three URL properties).
C7_FailsBeforeSideEffects ==
  BFailedOnProperty /\ BUrlsDefined => BSideEffects = {}

\* C8, as claimed: when the cleaning step is reached, unless debug is set to
\* suppress the cleanup (debug undefined included) build.path and setup.path
\* are deleted and only version.dat is left under tmp.path; when debug
\* suppresses the cleanup nothing is touched; version.dat survives.  (What
\* Ant excludes from every fileset by default is not counted against it;
\* stated for the invocations that define the three URL properties.)
C8_CleansUnlessDebug ==
  bPc = "done" /\ BUrlsDefined =>
    /\ bProps.debug # "true" =>
         /\ ~bDisk.build
         /\ ~bDisk.setup
         /\ {n \in bDisk.tmp : ~DefaultExcluded(n)} = bDisk0.tmp \cap {"version.dat"}
    /\ bProps.debug = "true" => bDisk = bDisk0
    /\ "version.dat" \in bDisk0.tmp => "version.dat" \in bDisk.tmp

\* C8, amended: the cleanup runs exactly when debug is defined as the string
\* false; then build.path and setup.path are deleted and under tmp.path
\* only version.dat and what Ant excludes by default are left; for any
\* other debug, undefined included, nothing is touched; version.dat
\* survives in every case.
C8_CleansWhenDebugFalse ==
  bPc = "done" =>
    /\ bProps.debug = "false" =>
         /\ ~bDisk.build
         /\ ~bDisk.setup
         /\ bDisk.tmp = {n \in bDisk0.tmp : n \in {"version.dat", ".gitignore"}}
         /\ BCleanups # {}
    /\ bProps.debug # "false" => bDisk = bDisk0 /\ BCleanups = {}
    /\ "version.dat" \in bDisk0.tmp => "version.dat" \in bDisk.tmp

\* A run with debug undefined got past the cleaning with version.dat there.
C8_Witness ==
  /\ bPc = "done"
  /\ bProps.debug = Undef
  /\ "version.dat" \in bDisk.tmp
  /\ bDisk.build

\* The parameters of variant v's own properties.
BOwnParams(v, params) ==
  /\ params.filename = "value-of-atf." \o v \o ".filename"
  /\ params.ext = "value-of-atf." \o v \o ".ext"
  /\ params.assertextract = "value-of-atf." \o v \o ".assertextract"
  /\ params.url = (IF bProps.url[v] = Undef THEN "${atf." \o v \o ".url}"
                   ELSE bProps.url[v])

\* C9, as claimed: each variant is released, once and with its own
\* parameters, exactly when its own URL is non-empty and its own companions
\* are defined, whatever the other variants are (stated for the invocations
\* of release.app that define the three URL properties).
C9_VariantsIndependent ==
  BEnded /\ BLoaded /\ BUrlsDefined =>
    \A v \in VariantSet :
      IF bProps.url[v] \notin {Undef, ""} /\ BComplete(v)
      THEN \E i \in BReleases(v) :
             BReleases(v) = {i} /\ BOwnParams(v, bTrace[i][2])
      ELSE BReleases(v) = {}

\* The block of variant u ran to its end: nothing to release, or released.
BPassed(u) ==
  \/ bProps.url[u] = ""
  \/ /\ BComplete(u)
     /\ \E i \in BReleases(u) : i < Len(bTrace) /\ bTrace[i + 1][1] = "echo"

\* The variants before v in the script.
BEarlier(v) ==
  {Variants[j] : j \in {k \in 1..Len(Variants) : \E m \in (k + 1)..Len(Variants) : Variants[m] = v}}

\* C9, amended: a variant is released at most once, and when the invocation
\* is over it was released, once and with its own parameters, exactly when
\* the load-time checks passed, the block of every earlier variant ran to
\* its end without failing, its own URL is not the empty string (an
\* undefined URL is not) and its own companions are defined; no companion
\* check of a released variant failed.
C9_VariantReleased ==
  \A v \in VariantSet :
    /\ Cardinality(BReleases(v)) <= 1
    /\ \A i \in BReleases(v) :
         /\ BOwnParams(v, bTrace[i][2])
         /\ \A j \in BAt("fail"), c \in CompanionSet :
              bTrace[j][2] # "atf." \o v \o "." \o c
    /\ BEnded =>
         (BReleases(v) # {}
            <=> /\ BLoaded
                /\ \A u \in BEarlier(v) : BPassed(u)
                /\ bProps.url[v] # ""
                /\ BComplete(v))

\* win3264 and win64 were released, win32 has no URL.
C9_Witness ==
  /\ bPc = "done"
  /\ bProps.url["win32"] = ""
  /\ BReleases("win3264") # {}
  /\ BReleases("win64") # {}
  /\ \A i \in BReleases("win64") : bTrace[i][2].filename = "value-of-atf.win64.filename"

\* C10, as claimed: every invocation of release.app runs finalize exactly
\* once, after every release.arch and the deletion of the marker file and
\* before any cleanup, and ends without the marker file (stated for the
\* invocations that define the three URL properties).
C10_AlwaysFinalizes ==
  BEnded /\ BLoaded /\ BUrlsDefined =>
    /\ Cardinality(BAt("finalize")) = 1
    /\ Marker \notin bDisk.tmp

\* C10, amended: finalize runs at most once, exactly once in an invocation
\* that completes and not at all in one that fails; when it runs, every
\* release.arch and the deletion of the marker file came before and every
\* cleanup deletion comes after; the marker file does not exist when
\* finalize runs nor at the end of an invocation that completes.
C10_FinalizeOrder ==
  /\ Cardinality(BAt("finalize")) <= 1
  /\ bPc = "done" => Cardinality(BAt("finalize")) = 1
  /\ bPc = "failed" => BAt("finalize") = {}
  /\ \A f \in BAt("finalize") :
       /\ \A i \in BAt("release.arch") \cup BAt("echo") : i < f
       /\ \E i \in BAt("delete-file") : i < f
       /\ \A i \in BCleanups : f < i
  /\ bPc \in {"finalize", "clean", "done"} => Marker \notin bDisk.tmp
  /\ bPc \in {"load", "release.app", "delete-marker"} \cup VariantSet
       => BAt("finalize") = {} /\ BCleanups = {}

\* An invocation that released a variant, finalized, cleaned and completed.
C10_Witness ==
  /\ bPc = "done"
  /\ BAt("release.arch") # {}
  /\ BAt("finalize") # {}
  /\ BCleanups # {}

====
